---- MODULE Spec2Model ----
(***************************************************************************)
(* Model of the dashboard page of teeb_trade (frontend, Svelte component). *)
(* The component keeps a registry of signals (activeSignals), a stats      *)
(* cell, a connectivity flag and a toast; it is driven by WebSocket        *)
(* callbacks (onopen / onmessage / onclose), by setTimeout / setInterval   *)
(* callbacks and by the Clear button.  JavaScript is single threaded, so   *)
(* every callback is one atomic action.                                    *)
(*                                                                         *)
(* Numbers are milliseconds, as in the source.  JSON null is the record    *)
(* Null.  A Signal's optional fields (order_book_ratio, oi, net_inflow)    *)
(* are absent from the payloads used here.                                 *)
(***************************************************************************)
EXTENDS Integers, Sequences, FiniteSets, TLC

(* ------------------------------------------------------------------ *)
(* Program constants                                                  *)
(* ------------------------------------------------------------------ *)

\* setInterval(() => { now = Date.now(); }, 1000)
TICK_MS == 1000

\* setTimeout(connect, 3000)
RECONNECT_MS == 3000

\* setTimeout(() => toastMessage = null, 3000)
TOAST_MS == 3000

\* const total = 60 * 60 * 1000  (getProgress), also the live feed's filter
total == 60 * 60 * 1000

(* ------------------------------------------------------------------ *)
(* Bounds of the model                                                *)
(* ------------------------------------------------------------------ *)

\* the clock is  big * HalfHour + fine * TICK_MS  with big <= MaxBig, fine <= MaxFine
MaxBig == 3
MaxFine == 3
\* how many times the transport closes a connection
MaxCloses == 2
\* how many well-formed Signal frames are delivered
MaxSignalFrames == 2
\* longest History payload
MaxHistory == 2

HalfHour == 30 * 60 * 1000

(* ------------------------------------------------------------------ *)
(* Values carried by the frames                                       *)
(* ------------------------------------------------------------------ *)

Null == [null |-> TRUE]

Symbols == {"BTC", "ETH"}

\* timestamps a backend can put in a Signal
Timestamps == {0, HalfHour}

\* Two payloads per (symbol, timestamp) that differ in every other field.
MkSignal(sym, v, ts) ==
    [symbol      |-> sym,
     signal_type |-> IF v = 1 THEN "Long" ELSE "Short",
     price       |-> v,
     volume      |-> 10 + v,
     avg_volume  |-> 20 + v,
     timestamp   |-> ts,
     reason      |-> IF v = 1 THEN "r1" ELSE "r2"]

Signals == { MkSignal(sym, v, ts) : sym \in Symbols, v \in 1..2, ts \in Timestamps }

\* SignalUpdate payloads: values no Signal carries, so that a copy is visible
Updates ==
    { [symbol |-> sym, price |-> 2 + u, volume |-> 12 + u,
       timestamp |-> 2 * HalfHour + u * TICK_MS] : sym \in Symbols, u \in 1..2 }

StatsPayloads ==
    { [total_signals |-> 1, win_rate |-> 50, top_gainer |-> "BTC"],
      [total_signals |-> 2, win_rate |-> 100, top_gainer |-> "ETH"] }

\* the signals a History replay carries: two for one symbol, one for the other
HistorySignals ==
    { MkSignal("BTC", 1, 0), MkSignal("BTC", 2, HalfHour), MkSignal("ETH", 1, 0) }

\* A JSON array is the record [items |-> <<...>>]; its elements are Signals or null.
HistoryItems ==
    UNION { [1..n -> HistorySignals \cup {Null}] : n \in 0..MaxHistory }

HistoryPayloads == { [items |-> h] : h \in HistoryItems }

(* A frame is the text of one WebSocket message, named by what JSON.parse  *)
(* makes of it: json = FALSE is a text JSON.parse rejects.                  *)
Unparseable == [json |-> FALSE]

Frame(t, p) == [json |-> TRUE, type |-> t, payload |-> p]

SignalFrames  == { Frame("Signal", s)  : s \in Signals }
UpdateFrames  == { Frame("Update", u)  : u \in Updates }
StatsFrames   == { Frame("Stats", s)   : s \in StatsPayloads }
HistoryFrames == { Frame("History", h) : h \in HistoryPayloads }

\* well-formed instances of the four variants of WsMessage
IsSignalArray(h) == \A i \in 1..Len(h.items) : h.items[i] # Null

WellFormedFrames ==
    SignalFrames \cup UpdateFrames \cup StatsFrames
        \cup { f \in HistoryFrames : IsSignalArray(f.payload) }

\* everything else a peer can send: bad text, an unknown tag, a null payload,
\* a History array with a null element
MalformedFrames ==
    {Unparseable}
        \cup { Frame("Ping", Null) }
        \cup { Frame(t, Null) : t \in {"Signal", "Update", "Stats", "History"} }
        \cup { f \in HistoryFrames : ~IsSignalArray(f.payload) }

Frames == WellFormedFrames \cup MalformedFrames

(* ------------------------------------------------------------------ *)
(* State                                                              *)
(* ------------------------------------------------------------------ *)

VARIABLES
    activeSignals,  \* Record<string, Signal>: a function from its keys to Signals
    keyOrder,       \* the keys of activeSignals in insertion order (Object.values order)
    stats,          \* Stats
    isConnected,    \* boolean
    toastMessage,   \* Null or [signal_type, symbol], the two parts of the template string
    toastType,      \* 'Long' | 'Short'
    now,            \* the component's clock, set by the interval callback
    sockets,        \* every WebSocket connect() created, in order; the last one is `socket`
    timers,         \* pending setTimeout callbacks, in deadline order
    nSignal,        \* history: well-formed Signal frames handled
    nToast,         \* history: calls of showToast
    nBeep           \* history: calls of playBeep

vars == <<activeSignals, keyOrder, stats, isConnected, toastMessage, toastType,
          now, sockets, timers, nSignal, nToast, nBeep>>

registry == <<activeSignals, keyOrder>>
toast == <<toastMessage, toastType>>
counters == <<nSignal, nToast, nBeep>>

(* ------------------------------------------------------------------ *)
(* Helpers: JavaScript objects, timers, sockets                       *)
(* ------------------------------------------------------------------ *)

\* obj[k] = v on a plain object: the key keeps its place if it exists, else it is added last
SetKey(obj, k, v) == [x \in DOMAIN obj \cup {k} |-> IF x = k THEN v ELSE obj[x]]

AddKey(order, k) ==
    IF \E i \in 1..Len(order) : order[i] = k THEN order ELSE Append(order, k)

\* setTimeout(cb, ms): the callback runs after every timer that is due no later
setTimeout(ts, cb, ms) ==
    LET before == SelectSeq(ts, LAMBDA t : t.remaining <= ms)
        after  == SelectSeq(ts, LAMBDA t : t.remaining > ms)
    IN  before \o <<[callback |-> cb, remaining |-> ms]>> \o after

\* new WebSocket(wsUrl), created at time t
NewSocket(t) == [state |-> "connecting", createdAt |-> t, closedAt |-> -1]

\* connect(): socket = new WebSocket(wsUrl), with its three handlers attached
connect(ss, t) == Append(ss, NewSocket(t))

SocketIds == 1..Len(sockets)

NumClosed == Cardinality({ i \in SocketIds : sockets[i].state = "closed" })

(* ------------------------------------------------------------------ *)
(* socket.onmessage, branch by branch                                 *)
(* ------------------------------------------------------------------ *)

\* mutant: the entry is stored under its signal type instead of its symbol
upsertSignal_ByType(reg, signal) == SetKey(reg, signal.signal_type, signal)

\* mutant: merges into the existing entry and keeps its timestamp
upsertSignal_KeepsTimestamp(reg, signal) ==
    IF signal.symbol \in DOMAIN reg
    THEN SetKey(reg, signal.symbol, [signal EXCEPT !.timestamp = reg[signal.symbol].timestamp])
    ELSE SetKey(reg, signal.symbol, signal)

\* Signal branch: activeSignals[signal.symbol] = signal; activeSignals = {...activeSignals}
upsertSignal(reg, signal) == SetKey(reg, signal.symbol, signal)

\* mutant: an element whose symbol is already in the registry is skipped
RECURSIVE forEachHistory_FirstWins(_, _, _)
forEachHistory_FirstWins(reg, items, i) ==
    IF i > Len(items) THEN reg
    ELSE IF items[i] = Null THEN reg
    ELSE IF items[i].symbol \in DOMAIN reg
         THEN forEachHistory_FirstWins(reg, items, i + 1)
         ELSE forEachHistory_FirstWins(SetKey(reg, items[i].symbol, items[i]), items, i + 1)

\* History branch: history.forEach(s => { activeSignals[s.symbol] = s; }).
\* Reading s.symbol of a null element throws: forEach stops there, and what the
\* earlier iterations assigned stays in the object.
RECURSIVE forEachHistory(_, _, _)
forEachHistory(reg, items, i) ==
    IF i > Len(items) THEN reg
    ELSE IF items[i] = Null THEN reg
    ELSE forEachHistory(SetKey(reg, items[i].symbol, items[i]), items, i + 1)

RECURSIVE forEachHistoryKeys(_, _, _)
forEachHistoryKeys(order, items, i) ==
    IF i > Len(items) THEN order
    ELSE IF items[i] = Null THEN order
    ELSE forEachHistoryKeys(AddKey(order, items[i].symbol), items, i + 1)

\* mutant: the update's timestamp is copied into the entry as well
applyUpdate_CopiesTimestamp(reg, update) ==
    IF update.symbol \in DOMAIN reg
    THEN [reg EXCEPT ![update.symbol].price = update.price,
                     ![update.symbol].volume = update.volume,
                     ![update.symbol].timestamp = update.timestamp]
    ELSE reg

\* mutant: no presence test, an unknown symbol gets an entry made from the update
applyUpdate_CreatesEntry(reg, update) ==
    IF update.symbol \in DOMAIN reg
    THEN [reg EXCEPT ![update.symbol].price = update.price,
                     ![update.symbol].volume = update.volume]
    ELSE SetKey(reg, update.symbol,
                [symbol |-> update.symbol, signal_type |-> "Long", price |-> update.price,
                 volume |-> update.volume, avg_volume |-> 0,
                 timestamp |-> update.timestamp, reason |-> ""])

\* Update branch: if (activeSignals[update.symbol]) { price = ...; volume = ...; }
applyUpdate(reg, update) ==
    IF update.symbol \in DOMAIN reg
    THEN [reg EXCEPT ![update.symbol].price = update.price,
                     ![update.symbol].volume = update.volume]
    ELSE reg

\* showToast(signal): the message is `${signal.signal_type} Signal: ${signal.symbol}`
toastText(signal) == [signal_type |-> signal.signal_type, symbol |-> signal.symbol]

showToast(signal) ==
    /\ toastMessage' = toastText(signal)
    /\ toastType' = signal.signal_type
    /\ timers' = setTimeout(timers, "toast", TOAST_MS)
    /\ nToast' = nToast + 1

\* playBeep(): touches the audio device only
playBeep == nBeep' = nBeep + 1

(* ------------------------------------------------------------------ *)
(* Initial state: the component after onMount                         *)
(* ------------------------------------------------------------------ *)

Init ==
    /\ activeSignals = [k \in {} |-> Null]
    /\ keyOrder = <<>>
    /\ stats = [total_signals |-> 0, win_rate |-> 0, top_gainer |-> "---"]
    /\ isConnected = FALSE
    /\ toastMessage = Null
    /\ toastType = "Long"
    /\ now = 0
    /\ sockets = connect(<<>>, 0)
    /\ timers = <<>>
    /\ nSignal = 0
    /\ nToast = 0
    /\ nBeep = 0

(* ------------------------------------------------------------------ *)
(* Actions                                                            *)
(* ------------------------------------------------------------------ *)

\* The model's clock is  BigOf * HalfHour + FineOf * TICK_MS  and moves by either step.
FineOf(t) == (t % HalfHour) \div TICK_MS
BigOf(t) == t \div HalfHour

Steps == {TICK_MS, HalfHour}

\* the bounded clock can still reach a deadline ms from now
TimeLeft(ms) ==
    \/ FineOf(now) * TICK_MS + ms <= MaxFine * TICK_MS
    \/ BigOf(now) < MaxBig

\* mutant: the connectivity flag is not raised
OnOpen_NoFlag(i) ==
    /\ sockets[i].state = "connecting"
    /\ sockets' = [sockets EXCEPT ![i].state = "open"]
    /\ UNCHANGED <<registry, stats, isConnected, toast, now, timers, counters>>

\* socket.onopen of socket i
OnOpen(i) ==
    /\ sockets[i].state = "connecting"
    /\ sockets' = [sockets EXCEPT ![i].state = "open"]
    /\ isConnected' = TRUE
    /\ UNCHANGED <<registry, stats, toast, now, timers, counters>>

\* what the catch block leaves behind when nothing was assigned before the throw
Caught == UNCHANGED <<registry, stats, toast, timers, counters>>

\* mutant: the snapshot is merged field by field and the old top gainer survives
StatsBranch_KeepsTopGainer(payload) ==
    /\ stats' = IF payload = Null \/ stats = Null THEN payload
                ELSE [payload EXCEPT !.top_gainer = stats.top_gainer]
    /\ UNCHANGED <<registry, toast, timers, counters>>

\* if (data.type === 'Stats') stats = data.payload
StatsBranch(payload) ==
    /\ stats' = payload
    /\ UNCHANGED <<registry, toast, timers, counters>>

\* else if (data.type === 'Signal'): upsert, showToast, playBeep
SignalBranch(signal) ==
    IF signal = Null
    THEN Caught   \* signal.symbol throws on null
    ELSE /\ activeSignals' = upsertSignal(activeSignals, signal)
         /\ keyOrder' = AddKey(keyOrder, signal.symbol)
         /\ showToast(signal)
         /\ playBeep
         /\ nSignal' = nSignal + 1
         /\ UNCHANGED stats

\* mutant: the replay raises the notification for its first signal
HistoryBranch_Notifies(history) ==
    IF history = Null
    THEN Caught
    ELSE IF Len(history.items) = 0 \/ history.items[1] = Null
    THEN /\ activeSignals' = forEachHistory(activeSignals, history.items, 1)
         /\ keyOrder' = forEachHistoryKeys(keyOrder, history.items, 1)
         /\ UNCHANGED <<stats, toast, timers, counters>>
    ELSE /\ activeSignals' = forEachHistory(activeSignals, history.items, 1)
         /\ keyOrder' = forEachHistoryKeys(keyOrder, history.items, 1)
         /\ showToast(history.items[1])
         /\ playBeep
         /\ UNCHANGED <<stats, nSignal>>

\* else if (data.type === 'History'): forEach upsert, no notification
HistoryBranch(history) ==
    IF history = Null
    THEN Caught   \* history.forEach throws on null
    ELSE /\ activeSignals' = forEachHistory(activeSignals, history.items, 1)
         /\ keyOrder' = forEachHistoryKeys(keyOrder, history.items, 1)
         /\ UNCHANGED <<stats, toast, timers, counters>>

\* else if (data.type === 'Update'): price and volume of an existing entry
UpdateBranch(update) ==
    IF update = Null
    THEN Caught   \* update.symbol throws on null
    ELSE /\ activeSignals' = applyUpdate(activeSignals, update)
         /\ UNCHANGED <<keyOrder, stats, toast, timers, counters>>

\* socket.onmessage of socket i, for the frame f; the whole try/catch
OnMessage(i, f) ==
    /\ sockets[i].state = "open"
    /\ f \in SignalFrames => nSignal < MaxSignalFrames
    /\ IF ~f.json THEN Caught   \* JSON.parse throws
       ELSE IF f.type = "Stats" THEN StatsBranch(f.payload)
       ELSE IF f.type = "Signal" THEN SignalBranch(f.payload)
       ELSE IF f.type = "History" THEN HistoryBranch(f.payload)
       ELSE IF f.type = "Update" THEN UpdateBranch(f.payload)
       ELSE Caught   \* no branch for this tag: nothing is assigned
    /\ UNCHANGED <<isConnected, now, sockets>>

\* mutant: two reconnections are scheduled for one close (as if onerror did it too)
OnClose_SchedulesTwice(i) ==
    /\ sockets[i].state \in {"connecting", "open"}
    /\ NumClosed < MaxCloses
    /\ TimeLeft(RECONNECT_MS)
    /\ sockets' = [sockets EXCEPT ![i].state = "closed", ![i].closedAt = now]
    /\ isConnected' = FALSE
    /\ timers' = setTimeout(setTimeout(timers, "connect", RECONNECT_MS), "connect", RECONNECT_MS)
    /\ UNCHANGED <<registry, stats, toast, now, counters>>

\* mutant: the delay grows with the number of closes (a backoff)
OnClose_Backoff(i) ==
    /\ sockets[i].state \in {"connecting", "open"}
    /\ NumClosed < MaxCloses
    /\ TimeLeft(RECONNECT_MS)
    /\ sockets' = [sockets EXCEPT ![i].state = "closed", ![i].closedAt = now]
    /\ isConnected' = FALSE
    /\ timers' = setTimeout(timers, "connect", RECONNECT_MS * (NumClosed + 1))
    /\ UNCHANGED <<registry, stats, toast, now, counters>>

\* mutant: after the first retry no further reconnection is scheduled
OnClose_GivesUp(i) ==
    /\ sockets[i].state \in {"connecting", "open"}
    /\ NumClosed < MaxCloses
    /\ TimeLeft(RECONNECT_MS)
    /\ sockets' = [sockets EXCEPT ![i].state = "closed", ![i].closedAt = now]
    /\ isConnected' = FALSE
    /\ timers' = IF NumClosed < 1 THEN setTimeout(timers, "connect", RECONNECT_MS) ELSE timers
    /\ UNCHANGED <<registry, stats, toast, now, counters>>

\* socket.onclose of socket i: the connection failed to open, dropped or was closed
OnClose(i) ==
    /\ sockets[i].state \in {"connecting", "open"}
    /\ NumClosed < MaxCloses
    /\ TimeLeft(RECONNECT_MS)
    /\ sockets' = [sockets EXCEPT ![i].state = "closed", ![i].closedAt = now]
    /\ isConnected' = FALSE
    /\ timers' = setTimeout(timers, "connect", RECONNECT_MS)
    /\ UNCHANGED <<registry, stats, toast, now, counters>>

\* mutant: only the entries older than the horizon are dropped
ClearHistory_KeepsLive ==
    /\ activeSignals' = [k \in { x \in DOMAIN activeSignals :
                                  now - activeSignals[x].timestamp < total } |-> activeSignals[k]]
    /\ keyOrder' = SelectSeq(keyOrder, LAMBDA x : now - activeSignals[x].timestamp < total)
    /\ UNCHANGED <<stats, isConnected, toast, now, sockets, timers, counters>>

\* clearHistory(), the Clear button
ClearHistory ==
    /\ activeSignals' = [k \in {} |-> Null]
    /\ keyOrder' = <<>>
    /\ UNCHANGED <<stats, isConnected, toast, now, sockets, timers, counters>>

(* d milliseconds pass with no other event: every timer due within d runs  *)
(* its callback at its deadline, in order, and the interval callback       *)
(* leaves now = Date.now().                                                *)
Due(d) == SelectSeq(timers, LAMBDA t : t.remaining <= d)

\* mutant: the timer callback opens a second socket beside the first
RECURSIVE runConnects_Twice(_, _, _)
runConnects_Twice(ss, due, i) ==
    IF i > Len(due) THEN ss
    ELSE IF due[i].callback = "connect"
         THEN runConnects_Twice(connect(connect(ss, now + due[i].remaining),
                                        now + due[i].remaining), due, i + 1)
         ELSE runConnects_Twice(ss, due, i + 1)

RECURSIVE runConnects(_, _, _)
runConnects(ss, due, i) ==
    IF i > Len(due) THEN ss
    ELSE IF due[i].callback = "connect"
         THEN runConnects(connect(ss, now + due[i].remaining), due, i + 1)
         ELSE runConnects(ss, due, i + 1)

\* mutant: the interval callback also drops the entries that reached the horizon
Tick_Expires(d) ==
    /\ d = TICK_MS => FineOf(now) < MaxFine
    /\ d = HalfHour => BigOf(now) < MaxBig
    /\ now' = now + d
    /\ sockets' = runConnects(sockets, Due(d), 1)
    /\ toastMessage' =
          IF \E j \in 1..Len(Due(d)) : Due(d)[j].callback = "toast"
          THEN Null ELSE toastMessage
    /\ timers' = [j \in 1..(Len(timers) - Len(Due(d))) |->
                    [timers[j + Len(Due(d))] EXCEPT !.remaining = @ - d]]
    /\ activeSignals' = [k \in { x \in DOMAIN activeSignals :
                                  now + d - activeSignals[x].timestamp < total } |-> activeSignals[k]]
    /\ keyOrder' = SelectSeq(keyOrder, LAMBDA x : now + d - activeSignals[x].timestamp < total)
    /\ UNCHANGED <<stats, isConnected, toastType, counters>>

Tick(d) ==
    /\ d = TICK_MS => FineOf(now) < MaxFine
    /\ d = HalfHour => BigOf(now) < MaxBig
    /\ now' = now + d
    /\ sockets' = runConnects(sockets, Due(d), 1)
    /\ toastMessage' =
          IF \E j \in 1..Len(Due(d)) : Due(d)[j].callback = "toast"
          THEN Null ELSE toastMessage
    /\ timers' = [j \in 1..(Len(timers) - Len(Due(d))) |->
                    [timers[j + Len(Due(d))] EXCEPT !.remaining = @ - d]]
    /\ UNCHANGED <<registry, stats, isConnected, toastType, counters>>

(* ------------------------------------------------------------------ *)
(* Specifications.  The registry, the clock and the connection do not  *)
(* constrain each other, so each specification lets one of them range  *)
(* over its full alphabet and the others over a small one.             *)
(* ------------------------------------------------------------------ *)

\* a small alphabet: a signal and its re-trigger, an update, stats, two
\* history replays (one with a null element) and a text that does not parse
CoreFrames ==
    { Frame("Signal", MkSignal("BTC", 1, 0)),
      Frame("Signal", MkSignal("BTC", 2, HalfHour)),
      Frame("Update", [symbol |-> "BTC", price |-> 3, volume |-> 13,
                       timestamp |-> 2 * HalfHour + TICK_MS]),
      Frame("Stats", [total_signals |-> 1, win_rate |-> 50, top_gainer |-> "BTC"]),
      Frame("History", [items |-> <<MkSignal("ETH", 1, 0)>>]),
      Frame("History", [items |-> <<MkSignal("BTC", 1, 0), Null>>]),
      Unparseable }

\* every callback, the small frame alphabet, both clock steps
Next ==
    \/ \E i \in SocketIds : OnOpen(i)
    \/ \E i \in SocketIds : \E f \in CoreFrames : OnMessage(i, f)
    \/ \E i \in SocketIds : OnClose(i)
    \/ ClearHistory
    \/ \E d \in Steps : Tick(d)

Spec == Init /\ [][Next]_vars

\* the registry under every frame, on a connection that stays up; half-hour clock steps
RegistryNext ==
    \/ \E i \in SocketIds : OnOpen(i)
    \/ \E i \in SocketIds : \E f \in Frames : OnMessage(i, f)
    \/ ClearHistory
    \/ Tick(HalfHour)

RegistrySpec == Init /\ [][RegistryNext]_vars

\* Time passes and the event loop runs the timers that are due.
TimePasses == \E d \in Steps : Tick(d)

\* the connection life cycle with both clock steps; the only frames are the two
\* Signal frames of the small alphabet, whose toasts share the timer queue
RetryNext ==
    \/ \E i \in SocketIds : OnOpen(i)
    \/ \E i \in SocketIds : \E f \in CoreFrames \cap SignalFrames : OnMessage(i, f)
    \/ \E i \in SocketIds : OnClose(i)
    \/ TimePasses

\* setTimeout and setInterval callbacks do run: the clock is weakly fair
FairSpec == Init /\ [][RetryNext]_vars /\ WF_vars(TimePasses)

(* ------------------------------------------------------------------ *)
(* Derived views (the reactive statement and the template)            *)
(* ------------------------------------------------------------------ *)

\* Object.values(activeSignals): the entries in key insertion order
ObjectValues == [i \in 1..Len(keyOrder) |-> activeSignals[keyOrder[i]]]

\* mutant: the comparator is a.timestamp - b.timestamp (ascending)
InsertSorted_Ascending(sorted, x) ==
    SelectSeq(sorted, LAMBDA y : y.timestamp <= x.timestamp)
        \o <<x>>
        \o SelectSeq(sorted, LAMBDA y : y.timestamp > x.timestamp)

\* Array.prototype.sort((a, b) => b.timestamp - a.timestamp): stable, descending
InsertSorted(sorted, x) ==
    SelectSeq(sorted, LAMBDA y : y.timestamp >= x.timestamp)
        \o <<x>>
        \o SelectSeq(sorted, LAMBDA y : y.timestamp < x.timestamp)

RECURSIVE sortByTimestampDesc(_)
sortByTimestampDesc(seq) ==
    IF Len(seq) = 0 THEN <<>>
    ELSE InsertSorted(sortByTimestampDesc(SubSeq(seq, 1, Len(seq) - 1)), seq[Len(seq)])

\* $: sortedActiveSignals = Object.values(activeSignals).sort(...)
sortedActiveSignals == sortByTimestampDesc(ObjectValues)

\* mutant: the boundary is included
IsLive_Inclusive(s) == now - s.timestamp <= 60 * 60 * 1000

\* the predicate of the live feed's filter
IsLive(s) == now - s.timestamp < 60 * 60 * 1000

\* {#each sortedActiveSignals.filter(s => now - s.timestamp < 60 * 60 * 1000) ...}
liveFeed == SelectSeq(sortedActiveSignals, IsLive)

\* {#each sortedActiveSignals as signal}
historyTable == sortedActiveSignals

(* getProgress(timestamp) = Math.min(100, (elapsed / total) * 100).  To stay *)
(* in the integers the operator returns that value times total; Percent(p)  *)
(* is the percentage p on the same scale.                                   *)
Percent(p) == p * total

Min(a, b) == IF a <= b THEN a ELSE b

\* mutant: the bar runs over half the horizon
getProgress_HalfHorizon(timestamp) ==
    LET elapsed == now - timestamp
    IN  Min(Percent(100), elapsed * 200)

getProgress(timestamp) ==
    LET elapsed == now - timestamp
    IN  Min(Percent(100), elapsed * 100)

Range(seq) == { seq[i] : i \in 1..Len(seq) }

Keys == DOMAIN activeSignals

(* ------------------------------------------------------------------ *)
(* Claims                                                             *)
(* ------------------------------------------------------------------ *)

\* the step is the handling of frame f by some socket's onmessage
FrameStep(f) == \E i \in SocketIds : OnMessage(i, f)

\* the entries other than k are what they were
OthersKept(k) ==
    /\ DOMAIN activeSignals' \ {k} = Keys \ {k}
    /\ \A x \in Keys \ {k} : activeSignals'[x] = activeSignals[x]

(* C1: last write wins for Signal frames.  Whenever a Signal frame is      *)
(* handled, the entry of its symbol becomes exactly the frame's payload,   *)
(* timestamp included, whatever the entry was before, and no other entry   *)
(* changes; so after any sequence of Signal frames each symbol holds the   *)
(* payload of its most recent frame.                                       *)
C1_LastWriteWins ==
    [][\A f \in SignalFrames :
          FrameStep(f) =>
             /\ f.payload.symbol \in DOMAIN activeSignals'
             /\ activeSignals'[f.payload.symbol] = f.payload
             /\ OthersKept(f.payload.symbol)]_vars

\* a re-trigger happened: two Signal frames for BTC, the entry is the second payload
C1_Witness ==
    /\ nSignal = 2
    /\ keyOrder = <<"BTC">>
    /\ activeSignals["BTC"] = MkSignal("BTC", 2, HalfHour)
    /\ toastMessage = toastText(MkSignal("BTC", 2, HalfHour))

(* C2: an Update for a symbol of the registry sets the entry's price and   *)
(* volume to the update's and leaves symbol, signal_type, avg_volume,      *)
(* timestamp and reason as they were; the update's timestamp is not        *)
(* copied.  No other entry changes.                                        *)
C2_UpdateKeepsOrigin ==
    [][\A f \in UpdateFrames :
          (f.payload.symbol \in Keys /\ FrameStep(f)) =>
             LET k   == f.payload.symbol
                 old == activeSignals[k]
                 new == activeSignals'[k]
             IN  /\ k \in DOMAIN activeSignals'
                 /\ new.price = f.payload.price
                 /\ new.volume = f.payload.volume
                 /\ new.timestamp = old.timestamp
                 /\ new.timestamp # f.payload.timestamp
                 /\ new.symbol = old.symbol
                 /\ new.signal_type = old.signal_type
                 /\ new.avg_volume = old.avg_volume
                 /\ new.reason = old.reason
                 /\ OthersKept(k)]_vars

\* an entry refreshed by an update (no Signal carries price 4) that still has
\* the timestamp of its signal, and a further update can be handled
C2_Witness ==
    /\ "ETH" \in Keys
    /\ activeSignals["ETH"].price = 4
    /\ activeSignals["ETH"].volume = 14
    /\ activeSignals["ETH"].timestamp = HalfHour
    /\ ENABLED (\E f \in UpdateFrames : f.payload.symbol = "ETH" /\ FrameStep(f))

(* C3: an Update whose symbol is not a key of the registry changes nothing *)
(* (no entry created, none modified, stats, toast and connection as they   *)
(* were); and a Signal for a symbol that is not a key creates the entry    *)
(* with the Signal's own values.                                           *)
C3_OrphanUpdateNoOp ==
    [][/\ \A f \in UpdateFrames :
            (f.payload.symbol \notin Keys /\ FrameStep(f)) =>
                UNCHANGED <<activeSignals, keyOrder, stats, toast, isConnected, sockets>>
       /\ \A f \in SignalFrames :
            (f.payload.symbol \notin Keys /\ FrameStep(f)) =>
                activeSignals' = [k \in Keys \cup {f.payload.symbol} |->
                                    IF k = f.payload.symbol THEN f.payload
                                    ELSE activeSignals[k]]]_vars

\* ETH is in the registry, BTC is not, and an Update for BTC can be handled
C3_Witness ==
    /\ Keys = {"ETH"}
    /\ activeSignals["ETH"].price = 3
    /\ ENABLED (\E f \in UpdateFrames : f.payload.symbol = "BTC" /\ FrameStep(f))

(* C4: showToast and playBeep have each been called once per Signal frame  *)
(* handled, whatever History, Update, Stats or malformed frames were       *)
(* handled besides.                                                        *)
C4_NotifyOncePerSignal ==
    /\ nToast = nSignal
    /\ nBeep = nSignal

\* one Signal frame was handled and a History frame added the second entry
C4_Witness ==
    /\ nSignal = 1
    /\ nToast = 1
    /\ Cardinality(Keys) = 2
    /\ stats # Null
    /\ stats.total_signals = 2

(* C5: a frame that is not a well-formed instance of the four variants     *)
(* leaves the registry and the stats as they were.                         *)
C5_MalformedFrameNoEffect ==
    [][\A f \in MalformedFrames :
          FrameStep(f) => UNCHANGED <<activeSignals, keyOrder, stats>>]_vars

\* getProgress of every entry of the registry is in range and has the three named values
ProgressInRange ==
    \A k \in Keys :
        LET elapsed == now - activeSignals[k].timestamp
            p == getProgress(activeSignals[k].timestamp)
        IN  /\ Percent(0) <= p
            /\ p <= Percent(100)
            /\ elapsed = 0 => p = Percent(0)
            /\ elapsed = 30 * 60 * 1000 => p = Percent(50)
            /\ elapsed >= 60 * 60 * 1000 => p = Percent(100)

(* C6: for every entry of the registry, whatever timestamp its Signal      *)
(* carried, getProgress lies in [0, 100], is 0 at elapsed = 0, 50 at 30    *)
(* minutes and 100 from 60 minutes on; and it never decreases as now       *)
(* advances.                                                               *)
C6_ProgressClamped ==
    /\ []ProgressInRange
    /\ [][\A ts \in Timestamps : getProgress(ts)' >= getProgress(ts)]_vars

C8_ClearEmpties ==
    [][/\ ClearHistory =>
            /\ DOMAIN activeSignals' = {}
            /\ sortedActiveSignals' = <<>>
            /\ UNCHANGED <<stats, isConnected, sockets, timers>>
       /\ \A f \in UpdateFrames :
            (Keys = {} /\ FrameStep(f)) => DOMAIN activeSignals' = {}]_vars

\* the registry is empty again after having held entries (a toast was raised
\* by a Signal), the stats were set, and an Update can be handled
C8_Witness ==
    /\ Keys = {}
    /\ nSignal = 2
    /\ stats # Null
    /\ stats.total_signals = 1
    /\ isConnected
    /\ ENABLED (\E f \in UpdateFrames : FrameStep(f))

\* the reconnect timers that are pending
PendingConnects == SelectSeq(timers, LAMBDA t : t.callback = "connect")

(* C9: every closed connection has exactly one reconnection: either the    *)
(* next socket, created exactly 3000 ms after the close, or a single       *)
(* pending timer due 3000 ms after the close, with the connectivity state  *)
(* down; the sockets ever created are 1 plus the closes whose timer has    *)
(* run.                                                                    *)
C9_ReconnectOnClose ==
    /\ Len(sockets) = 1 + NumClosed - Len(PendingConnects)
    /\ \A i \in SocketIds :
          sockets[i].state = "closed" =>
             IF i < Len(sockets)
             THEN sockets[i + 1].createdAt = sockets[i].closedAt + 3000
             ELSE /\ ~isConnected
                  /\ Len(PendingConnects) = 1
                  /\ PendingConnects[1].remaining > 0
                  /\ now + PendingConnects[1].remaining = sockets[i].closedAt + 3000
    /\ sockets[Len(sockets)].state # "closed" => Len(PendingConnects) = 0

\* two closes, each followed by its reconnection 3000 ms later
C9_Witness ==
    /\ Len(sockets) = 3
    /\ sockets[1].state = "closed"
    /\ sockets[2].state = "closed"
    /\ sockets[2].createdAt = sockets[1].closedAt + 3000
    /\ sockets[3].createdAt = sockets[2].closedAt + 3000
    /\ sockets[2].closedAt > sockets[2].createdAt

(* C10: under fairness of the clock and the timers, whenever the latest    *)
(* connection has closed a new connection is eventually created, after     *)
(* every close and not only the first.                                     *)
C10_RetryForever ==
    \A n \in 1..MaxCloses :
        (Len(sockets) = n /\ sockets[n].state = "closed") ~> (Len(sockets) > n)

\* every close the bound allows has happened and the client is connected again
C10_Witness ==
    /\ NumClosed = MaxCloses
    /\ Len(sockets) = MaxCloses + 1
    /\ sockets[Len(sockets)].state = "open"
    /\ isConnected

\* the sockets that are connecting or open
LiveSockets == { i \in SocketIds : sockets[i].state \in {"connecting", "open"} }

C13_OneConnectionOutstanding ==
    /\ Cardinality(LiveSockets) <= 1
    /\ Len(PendingConnects) <= 1
    /\ ~(LiveSockets # {} /\ Len(PendingConnects) > 0)

\* the second connection has closed too and its reconnect timer is pending
C13_Witness ==
    /\ Len(sockets) = 2
    /\ LiveSockets = {}
    /\ Len(PendingConnects) = 1
    /\ PendingConnects[1].remaining < 3000

(* C14: every socket but the most recently created one is closed, and no   *)
(* frame handled by the onmessage of such a socket changes the registry or *)
(* the stats.                                                              *)
C14_SupersededIgnored ==
    [][\A i \in SocketIds :
          i < Len(sockets) =>
             /\ sockets[i].state = "closed"
             /\ \A f \in CoreFrames :
                   OnMessage(i, f) => UNCHANGED <<activeSignals, keyOrder, stats>>]_vars

\* a second connection is open and delivers frames, the first one cannot
C14_Witness ==
    /\ Len(sockets) = 2
    /\ sockets[2].state = "open"
    /\ Keys = {}
    /\ ENABLED (\E f \in CoreFrames : OnMessage(2, f))
    /\ ~ENABLED (\E f \in CoreFrames : OnMessage(1, f))

\* the index of the last element of items whose symbol is sym
LastIndexOf(items, sym) ==
    CHOOSE i \in 1..Len(items) :
        /\ items[i].symbol = sym
        /\ \A j \in 1..Len(items) : items[j].symbol = sym => j <= i

(* C15: from every reachable registry (entries refreshed by Updates        *)
(* included) and for every History payload that is an array of Signals,    *)
(* the registry the History branch assigns holds, for every symbol of the  *)
(* payload, the last element with that symbol, and holds every entry whose *)
(* symbol is not in the payload as it was.                                 *)
C15_HistoryInOrderUpsert ==
    \A h \in HistoryPayloads :
        IsSignalArray(h) =>
            LET seeded == forEachHistory(activeSignals, h.items, 1)
            IN  \A sym \in Symbols :
                   IF \E i \in 1..Len(h.items) : h.items[i].symbol = sym
                   THEN /\ sym \in DOMAIN seeded
                        /\ seeded[sym] = h.items[LastIndexOf(h.items, sym)]
                   ELSE /\ (sym \in DOMAIN seeded) <=> (sym \in Keys)
                        /\ sym \in Keys => seeded[sym] = activeSignals[sym]

\* a registry seeded by History alone, its BTC entry refreshed by an Update, about
\* to receive a History frame with two BTC elements
C15_Witness ==
    /\ nSignal = 0
    /\ Keys = {"BTC", "ETH"}
    /\ activeSignals["BTC"].price = 3
    /\ ENABLED FrameStep(Frame("History",
                  [items |-> <<MkSignal("BTC", 1, 0), MkSignal("BTC", 2, HalfHour)>>]))

\* a sequence of entries in non-increasing timestamp order
MostRecentFirst(seq) ==
    \A i \in 1..(Len(seq) - 1) : seq[i].timestamp >= seq[i + 1].timestamp

(* C16: the history table and the live feed are in non-increasing          *)
(* timestamp order; every symbol of the registry is in the history table   *)
(* exactly once; the live feed is the history table without the entries of *)
(* age >= 60 minutes, in the same order.                                   *)
C16_ViewsMostRecentFirst ==
    /\ MostRecentFirst(historyTable)
    /\ MostRecentFirst(liveFeed)
    /\ Len(historyTable) = Cardinality(Keys)
    /\ \A k \in Keys :
          Cardinality({ i \in 1..Len(historyTable) : historyTable[i] = activeSignals[k] }) = 1
    /\ liveFeed = SelectSeq(historyTable, LAMBDA s : ~(now - s.timestamp >= 60 * 60 * 1000))

\* BTC was inserted first but ETH is newer: the sort puts ETH first, and BTC has aged out
C16_Witness ==
    /\ keyOrder = <<"BTC", "ETH">>
    /\ activeSignals["BTC"].timestamp < activeSignals["ETH"].timestamp
    /\ historyTable[1].symbol = "ETH"
    /\ liveFeed = <<activeSignals["ETH"]>>

(* C17: isConnected is false at the start; at every moment it is true iff  *)
(* the most recently created socket is open (it has fired open and not     *)
(* close), so it is false while a reconnect timer is pending; an open or a *)
(* close changes neither the registry nor the stats.                       *)
C17_IndicatorTracksConnection ==
    /\ isConnected = FALSE
    /\ [](/\ isConnected <=> (sockets[Len(sockets)].state = "open")
          /\ Len(PendingConnects) > 0 => ~isConnected)
    /\ [][(\E i \in SocketIds : OnOpen(i) \/ OnClose(i)) =>
             UNCHANGED <<activeSignals, keyOrder, stats>>]_vars

\* the first connection filled the registry and closed; the second has not opened yet
C17_Witness ==
    /\ Len(sockets) = 2
    /\ sockets[2].state = "connecting"
    /\ ~isConnected
    /\ Keys # {}
    /\ stats # [total_signals |-> 0, win_rate |-> 0, top_gainer |-> "---"]

\* the toast timers that have not fired yet: one per Signal of the last 3000 ms
PendingToasts == SelectSeq(timers, LAMBDA t : t.callback = "toast")

(* C18: the toast is visible exactly while the timer of the latest Signal  *)
(* is pending, that is from the latest Signal until 3000 ms after it, and  *)
(* it is hidden at that moment and not earlier.                            *)
C18_ToastExpiresAfterLatest ==
    (toastMessage # Null) <=> (Len(PendingToasts) > 0)

(* C19: every entry of the registry is stored under its own symbol, and    *)
(* the keys of the object are those symbols, each once.                    *)
C19_KeyIsSymbol ==
    /\ \A k \in Keys : activeSignals[k].symbol = k
    /\ Range(keyOrder) = Keys
    /\ Len(keyOrder) = Cardinality(Keys)

\* both symbols present after Signals, a History frame and an Update, and a clear before
C19_Witness ==
    /\ Keys = {"BTC", "ETH"}
    /\ nSignal = 2
    /\ keyOrder = <<"ETH", "BTC">>
    /\ activeSignals["ETH"].price > 2
    /\ activeSignals["BTC"].reason = "r2"

(* C20: an entry is in the live feed iff its progress is below 100; the    *)
(* bar is at 100 exactly from the moment the entry is no longer live.      *)
C20_ProgressAgreesWithFeed ==
    \A k \in Keys :
        (activeSignals[k] \in Range(liveFeed))
            <=> (getProgress(activeSignals[k].timestamp) < Percent(100))

\* one entry exactly at the horizon (bar at 100, not in the feed), one half way
C20_Witness ==
    /\ Keys = {"BTC", "ETH"}
    /\ getProgress(activeSignals["BTC"].timestamp) = Percent(100)
    /\ getProgress(activeSignals["ETH"].timestamp) = Percent(50)
    /\ Range(liveFeed) = {activeSignals["ETH"]}

====
